---- MODULE Spec2Model ----
(***************************************************************************)
(* A model of django-dbbackup: the database command runner (dbcommands.py), *)
(* the backup commands (dbbackup.py, backup_media.py), gpg encryption      *)
(* (utils.py) and the S3 storage backend (s3_storage.py).                  *)
(*                                                                         *)
(* A Python string is a sequence of one-character strings, so that         *)
(* str.replace, "in", shlex.split and "%s" formatting are computed         *)
(* character by character, as Python computes them.                        *)
(***************************************************************************)
EXTENDS Integers, Sequences, FiniteSets, TLC

VARIABLES
    settings,   \* django.conf.settings: the DBBACKUP_* overrides that are set
    database,   \* the settings.DATABASES entry handed to DBCommands
    dbc,        \* the DBCommands object: [engine, settings], or None
    pc,         \* where the caller of DBCommands is
    io,         \* "backup" (run_backup_commands) or "restore" (run_restore_commands)
    commands,   \* run_commands: the command list being run
    ip,         \* run_commands: index of the next command of the list
    translated, \* run_commands: the translated command of the last iteration
    spawned,    \* the processes Popen started: [step, argv, status]
    printed,    \* the lines printed so far
    err         \* the exception that reached the caller, or None

\* the cleanup of old backups (dbbackup.py and backup_media.py)
VARIABLES
    cmd,        \* the management command: "dbbackup" or "backup_media"
    servername, \* the --servername option: a str, or None
    now,        \* datetime.now()
    listed,     \* what storage.list_directory() returns, in its order
    todo,       \* cleanup_old_backups: the entries the loop has still to visit
    deleted,    \* the names storage.delete_file was called with, in call order
    cpc,        \* where cleanup_old_backups is
    cerr        \* the exception that ended cleanup_old_backups, or None

\* one run of a backup command (dbbackup.py and backup_media.py: handle)
VARIABLES
    options,       \* the command line: [clean, compress, encrypt, database]
    bpc,           \* where handle is
    database_keys, \* handle: the keys of DATABASES the loop has still to visit
    output_file,   \* the file object being prepared: [name, encrypted], or None
    disk,          \* the temporary paths that exist on disk
    result,        \* encrypt_file: what g.encrypt_file returned, or None
    stored,        \* the names in the storage, in the order it lists them
    written,       \* the files storage.write_file was called with and took
    berr           \* the exception that ended handle, or None

\* the S3 storage backend (s3_storage.py)
VARIABLES
    s3conf,        \* the class attributes S3_BUCKET, S3_ACCESS_KEY, S3_SECRET_KEY
    s3pc,          \* where the caller of Storage is
    connections,   \* the number of boto.connect_s3 calls made
    unread,        \* write_file: the bytes of the file handle not yet read
    buffer,        \* write_file: the size of the buffer last read
    part_index,    \* write_file: the index of the next part
    mp,            \* the multipart upload: [parts, completes, completed, cancels]
    fault,         \* write_file: the exception its try block raised, or None
    s3err          \* the exception that reached the caller, or None

\* a call of DBCommands.filename or DBCommands.filter_filepaths
VARIABLES
    fpc,           \* where the caller is: "new", "named", "filtered"
    fout           \* the arguments of the call and what it returned, or None

envVars == <<settings, database, dbc>>
cmdVars == <<pc, io, commands, ip, translated, spawned, printed, err>>
cleanVars == <<cmd, servername, now, listed, todo, deleted, cpc, cerr>>
backupVars == <<options, bpc, database_keys, output_file, disk, result, stored,
                written, berr>>
s3Vars == <<s3conf, s3pc, connections, unread, buffer, part_index, mp, fault, s3err>>
fnVars == <<fpc, fout>>

vars == <<envVars, cmdVars, cleanVars, backupVars, s3Vars, fnVars>>

None == [none |-> TRUE]

(***************************************************************************)
(* Python strings                                                          *)
(***************************************************************************)

\* sub in s
Contains(s, sub) ==
    \E i \in 1..(Len(s) - Len(sub) + 1) : SubSeq(s, i, i + Len(sub) - 1) = sub

\* s.find(sub) + 1: the first index at which sub occurs in s, 0 if none
Find(s, sub) ==
    IF Contains(s, sub)
    THEN CHOOSE i \in 1..(Len(s) - Len(sub) + 1) :
            /\ SubSeq(s, i, i + Len(sub) - 1) = sub
            /\ \A j \in 1..(i - 1) : SubSeq(s, j, j + Len(sub) - 1) # sub
    ELSE 0

\* s.replace('', new): new before every character and at the end
Interleave(s, new) ==
    [i \in 1..(Len(new) * (Len(s) + 1) + Len(s)) |->
        LET q == (i - 1) \div (Len(new) + 1)
            r == (i - 1) % (Len(new) + 1)
        IN  IF r < Len(new) THEN new[r + 1] ELSE s[q + 1]]

\* s.replace(old, new): every non-overlapping occurrence, left to right.
RECURSIVE Replace(_, _, _)
Replace(s, old, new) ==
    IF old = <<>> THEN Interleave(s, new)
    ELSE LET i == Find(s, old)
         IN  IF i = 0 THEN s
             ELSE SubSeq(s, 1, i - 1) \o new
                    \o Replace(SubSeq(s, i + Len(old), Len(s)), old, new)

\* sep.join(list)
RECURSIVE Join(_, _)
Join(sep, list) ==
    IF list = <<>> THEN <<>>
    ELSE IF Len(list) = 1 THEN list[1]
    ELSE list[1] \o sep \o Join(sep, Tail(list))

\* s.split(sep) for a one-character sep: the fields between the separators.
Split(s, sep) ==
    LET at == {i \in 1..Len(s) : s[i] = sep}
        \* the k-th separator; the 0-th is before s and the last after it
        pos(k) == IF k = 0 THEN 0
                  ELSE IF k > Cardinality(at) THEN Len(s) + 1
                  ELSE CHOOSE p \in at : Cardinality({q \in at : q < p}) = k - 1
    IN  [k \in 1..(Cardinality(at) + 1) |-> SubSeq(s, pos(k - 1) + 1, pos(k) - 1)]

\* shlex.split(s) of a string without quotes or escapes: the words between
\* runs of whitespace.
ShlexSplit(s) == SelectSeq(Split(s, " "), LAMBDA w : w # <<>>)

Digits == <<"0", "1", "2", "3", "4", "5", "6", "7", "8", "9">>

\* str(n) of a non-negative int
RECURSIVE IntStr(_)
IntStr(n) == IF n < 10 THEN <<Digits[n + 1]>>
             ELSE IntStr(n \div 10) \o <<Digits[(n % 10) + 1]>>

\* A Python value that is an int or a str: [int |-> n] or [str |-> s].
PyInt(n) == [int |-> n]
PyS(s) == [str |-> s]

\* str(v): a str is returned as it is, an int as its decimal digits.
PyStr(v) == IF "int" \in DOMAIN v THEN IntStr(v.int) ELSE v.str

\* repr(list) of a list of str without quotes, backslashes or control
\* characters: ['a', 'b']
ReprList(list) ==
    <<"[">> \o Join(<<",", " ">>,
                    [i \in 1..Len(list) |-> <<"'">> \o list[i] \o <<"'">>])
            \o <<"]">>

\* datetime.datetime(y, m, d)
Datetime(y, m, d) ==
    [year |-> y, month |-> m, day |-> d, hour |-> 0, minute |-> 0, second |-> 0]

\* dict.get(key, default)
Get(d, key, default) == IF key \in DOMAIN d THEN d[key] ELSE default

(***************************************************************************)
(* dbcommands.py: constants                                                *)
(***************************************************************************)

READ_FILE == <<"<","R","E","A","D","_","F","I","L","E",">">>
WRITE_FILE == <<"<","W","R","I","T","E","_","F","I","L","E",">">>

T_adminuser == <<"{","a","d","m","i","n","u","s","e","r","}">>
T_username == <<"{","u","s","e","r","n","a","m","e","}">>
T_password == <<"{","p","a","s","s","w","o","r","d","}">>
T_databasename == <<"{","d","a","t","a","b","a","s","e","n","a","m","e","}">>
T_host == <<"{","h","o","s","t","}">>
T_port == <<"{","p","o","r","t","}">>

HostFlag == <<" ","-","-","h","o","s","t","=","{","h","o","s","t","}">>
PortFlag == <<" ","-","-","p","o","r","t","=","{","p","o","r","t","}">>

(***************************************************************************)
(* dbcommands.py: the engine settings                                      *)
(***************************************************************************)

\* BaseEngineSettings.__init__: database_host and database_port
database_host(db) == Get(db, "HOST", <<>>)
database_port(db) == PyStr(Get(db, "PORT", PyS(<<>>)))

\* the flags appended whether or not host and port are set
WithHostPort_Always(db, command) == command \o HostFlag \o PortFlag

\* command = '%s --host={host}' % command, then the same for the port
WithHostPort(db, command) ==
    LET c1 == IF database_host(db) # <<>> THEN command \o HostFlag ELSE command
    IN  IF database_port(db) # <<>> THEN c1 \o PortFlag ELSE c1

\* getattr(settings, name, None) followed by "if not value:": the default is
\* taken when the setting is absent or is an empty list.
Unset(conf, name) == name \notin DOMAIN conf \/ conf[name] = <<>>

MySQLBackupCommands(conf, db) ==
    LET command == WithHostPort(db,
            <<"m","y","s","q","l","d","u","m","p"," ","-","-","u","s","e","r","=",
              "{","a","d","m","i","n","u","s","e","r","}"," ","-","-","p","a","s","s",
              "w","o","r","d","=","{","p","a","s","s","w","o","r","d","}">>)
            \o <<" ","{","d","a","t","a","b","a","s","e","n","a","m","e","}"," ",">">>
    IN  IF Unset(conf, "DBBACKUP_MYSQL_BACKUP_COMMANDS")
        THEN <<ShlexSplit(command)>>
        ELSE conf["DBBACKUP_MYSQL_BACKUP_COMMANDS"]

MySQLRestoreCommands(conf, db) ==
    LET command == WithHostPort(db,
            <<"m","y","s","q","l"," ","-","-","u","s","e","r","=","{","a","d","m","i",
              "n","u","s","e","r","}"," ","-","-","p","a","s","s","w","o","r","d","=",
              "{","p","a","s","s","w","o","r","d","}">>)
            \o <<" ","{","d","a","t","a","b","a","s","e","n","a","m","e","}"," ","<">>
    IN  IF Unset(conf, "DBBACKUP_MYSQL_RESTORE_COMMANDS")
        THEN <<ShlexSplit(command)>>
        ELSE conf["DBBACKUP_MYSQL_RESTORE_COMMANDS"]

PostgreSQLBackupCommands(conf, db) ==
    LET command == WithHostPort(db,
            <<"p","g","_","d","u","m","p"," ","-","-","u","s","e","r","n","a","m","e",
              "=","{","a","d","m","i","n","u","s","e","r","}">>)
            \o <<" ","{","d","a","t","a","b","a","s","e","n","a","m","e","}"," ",">">>
    IN  IF Unset(conf, "DBBACKUP_POSTGRESQL_BACKUP_COMMANDS")
        THEN <<ShlexSplit(command)>>
        ELSE conf["DBBACKUP_POSTGRESQL_BACKUP_COMMANDS"]

dropdb_command(db) ==
    WithHostPort(db,
        <<"d","r","o","p","d","b"," ","-","-","u","s","e","r","n","a","m","e","=",
          "{","a","d","m","i","n","u","s","e","r","}">>)
    \o <<" ","{","d","a","t","a","b","a","s","e","n","a","m","e","}">>

createdb_command(db) ==
    WithHostPort(db,
        <<"c","r","e","a","t","e","d","b"," ","-","-","u","s","e","r","n","a","m","e",
          "=","{","a","d","m","i","n","u","s","e","r","}"," ","-","-","o","w","n","e",
          "r","=","{","u","s","e","r","n","a","m","e","}">>)
    \o <<" ","{","d","a","t","a","b","a","s","e","n","a","m","e","}">>

import_command(db) ==
    WithHostPort(db,
        <<"p","s","q","l"," ","-","-","u","s","e","r","n","a","m","e","=","{","a","d",
          "m","i","n","u","s","e","r","}">>)
    \o <<" ","-","-","s","i","n","g","l","e","-","t","r","a","n","s","a","c","t","i",
         "o","n"," ","{","d","a","t","a","b","a","s","e","n","a","m","e","}"," ","<">>

PostgreSQLRestoreCommands(conf, db) ==
    IF Unset(conf, "DBBACKUP_POSTGRESQL_RESTORE_COMMANDS")
        THEN << ShlexSplit(dropdb_command(db)),
                ShlexSplit(createdb_command(db)),
                ShlexSplit(import_command(db)) >>
        ELSE conf["DBBACKUP_POSTGRESQL_RESTORE_COMMANDS"]

\* getattr(settings, name, default): the override is taken whatever it is
SQLiteBackupCommands(conf) ==
    Get(conf, "DBBACKUP_SQLITE_BACKUP_COMMANDS", << <<READ_FILE, T_databasename>> >>)

SQLiteRestoreCommands(conf) ==
    Get(conf, "DBBACKUP_SQLITE_RESTORE_COMMANDS", << <<WRITE_FILE, T_databasename>> >>)

MySQLSettings(conf, db) ==
    [ EXTENSION |-> Get(conf, "DBBACKUP_MYSQL_EXTENSION", <<"m","y","s","q","l">>),
      BACKUP_COMMANDS |-> MySQLBackupCommands(conf, db),
      RESTORE_COMMANDS |-> MySQLRestoreCommands(conf, db) ]

PostgreSQLSettings(conf, db) ==
    [ EXTENSION |-> Get(conf, "DBBACKUP_POSTGRESQL_EXTENSION", <<"p","s","q","l">>),
      BACKUP_COMMANDS |-> PostgreSQLBackupCommands(conf, db),
      RESTORE_COMMANDS |-> PostgreSQLRestoreCommands(conf, db) ]

SQLiteSettings(conf) ==
    [ EXTENSION |-> Get(conf, "DBBACKUP_SQLITE_EXTENSION", <<"s","q","l","i","t","e">>),
      BACKUP_COMMANDS |-> SQLiteBackupCommands(conf),
      RESTORE_COMMANDS |-> SQLiteRestoreCommands(conf) ]

(***************************************************************************)
(* dbcommands.py: DBCommands                                               *)
(***************************************************************************)

E_mysql == <<"m","y","s","q","l">>
E_psycopg2 == <<"p","o","s","t","g","r","e","s","q","l","_","p","s","y","c","o","p","g","2">>
E_postgis == <<"p","o","s","t","g","i","s">>
E_sqlite3 == <<"s","q","l","i","t","e","3">>

\* self.database['ENGINE'].split('.')[-1]
EngineOf(db) == LET parts == Split(db.ENGINE, ".") IN parts[Len(parts)]

\* DBCommands._get_settings: no branch for any other engine, so the method
\* falls off its end and returns None.
GetSettings(conf, db) ==
    LET engine == EngineOf(db)
    IN  IF engine = E_mysql THEN MySQLSettings(conf, db)
        ELSE IF engine \in {E_psycopg2, E_postgis} THEN PostgreSQLSettings(conf, db)
        ELSE IF engine = E_sqlite3 THEN SQLiteSettings(conf)
        ELSE None

\* DBCommands._clean_passwd
CleanPasswd(db, instr) == Replace(instr, db.PASSWORD, <<"*","*","*","*","*","*">>)

\* translate_command reads database['HOST'] and database['PORT'] for every
\* argument, whether or not the argument holds the token: a KeyError when the
\* key is absent.
TranslateRaises(db, command) ==
    Len(command) > 0 /\ ~ ({"HOST", "PORT"} \subseteq DOMAIN db)

TranslateArg(db, arg) ==
    LET a1 == Replace(arg, T_adminuser, Get(db, "ADMINUSER", db.USER))
        a2 == Replace(a1, T_username, db.USER)
        a3 == Replace(a2, T_password, db.PASSWORD)
        a4 == Replace(a3, T_databasename, db.NAME)
        a5 == Replace(a4, T_host, db.HOST)
    IN  Replace(a5, T_port, PyStr(db.PORT))

\* DBCommands.translate_command, when it does not raise
TranslateCommand(db, command) ==
    [i \in 1..Len(command) |-> TranslateArg(db, command[i])]

\* run_command: command = filter(lambda arg: arg not in ['<', '>'], command)
StripMarkers(command) == SelectSeq(command, LAMBDA arg : arg \notin {<<"<">>, <<">">>})

\* run_command: the line printed before the process is started
RunningLine(db, argv) ==
    CleanPasswd(db, <<" "," ","R","u","n","n","i","n","g",":"," ">> \o Join(<<" ">>, argv))

\* run_command: CommandError("Error running: %s" % command), command a list
ErrorMessage(db, argv) ==
    <<"E","r","r","o","r"," ","r","u","n","n","i","n","g",":"," ">> \o ReprList(argv)

\* only a positive return code taken as a failure
Failed_OnlyPositive(status) == status > 0

\* run_command: "if process.poll():", the return code of the finished process
Failed(status) == status # 0

(***************************************************************************)
(* The inputs: the settings and the DATABASES entries                      *)
(***************************************************************************)

S_shop == <<"s","h","o","p">>
S_u == <<"u">>
S_root == <<"r","o","o","t">>

EngineNames ==
    { <<"d","j","a","n","g","o",".","d","b",".","b","a","c","k","e","n","d","s",".">> \o e :
        e \in {E_mysql, E_psycopg2, E_sqlite3, <<"o","r","a","c","l","e">>} }
    \cup { <<"d","j","a","n","g","o",".","c","o","n","t","r","i","b",".","g","i","s",".",
             "d","b",".","b","a","c","k","e","n","d","s",".">> \o E_postgis }

Passwords == { <<"s","3">>, <<"o","o">>, <<>> }
Hosts == { <<>>, <<"h">> }
Ports == { PyS(<<>>), PyInt(33) }

\* the optional keys of a DATABASES entry
Optional(key, values) == {[k \in {} |-> k]} \cup {key :> v : v \in values}

Databases ==
    { ("ENGINE" :> e) @@ ("NAME" :> S_shop) @@ ("USER" :> S_u) @@ ("PASSWORD" :> p)
        @@ a @@ h @@ q :
        e \in EngineNames, p \in Passwords, a \in Optional("ADMINUSER", {S_root}),
        h \in Optional("HOST", Hosts), q \in Optional("PORT", Ports) }

\* a DBBACKUP_MYSQL_BACKUP_COMMANDS override of two steps:
\* [['flush', '{databasename}'], ['dump', '-p{password}', '>']]
CustomCommands ==
    << << <<"f","l","u","s","h">>, T_databasename >>,
       << <<"d","u","m","p">>, <<"-","p">> \o T_password, <<">">> >> >>

SettingsChoices ==
    { [k \in {} |-> k], "DBBACKUP_MYSQL_BACKUP_COMMANDS" :> CustomCommands }

\* return codes of a process: success, failure, killed by a signal
ExitStatuses == {0, 1, -9}

\* the variables of a backup command when none runs
BackupIdle ==
    /\ options = None
    /\ bpc = "idle"
    /\ database_keys = <<>>
    /\ output_file = None
    /\ disk = {}
    /\ result = None
    /\ stored = <<>>
    /\ written = <<>>
    /\ berr = None

\* the variables of the S3 backend when it is not used
S3Idle ==
    /\ s3conf = None
    /\ s3pc = "idle"
    /\ connections = 0
    /\ unread = 0
    /\ buffer = 0
    /\ part_index = 0
    /\ mp = None
    /\ fault = None
    /\ s3err = None

\* the variables of a call of filename when none is made
FnIdle ==
    /\ fpc = "idle"
    /\ fout = None

\* the cleanup variables of a run that does no cleanup
CleanIdle ==
    /\ cmd = "none"
    /\ servername = None
    /\ now = Datetime(2021, 3, 1)
    /\ listed = <<>>
    /\ todo = <<>>
    /\ deleted = <<>>
    /\ cpc = "idle"
    /\ cerr = None

(***************************************************************************)
(* DBCommands as a state machine                                           *)
(***************************************************************************)

InitCommands ==
    /\ settings \in SettingsChoices
    /\ database \in Databases
    /\ dbc = None
    /\ pc = "new"
    /\ io = "none"
    /\ commands = <<>>
    /\ ip = 0
    /\ translated = <<>>
    /\ spawned = <<>>
    /\ printed = <<>>
    /\ err = None
    /\ CleanIdle
    /\ BackupIdle
    /\ S3Idle
    /\ FnIdle

Exception(type, message, step) == [type |-> type, message |-> message, step |-> step]

\* DBCommands.__init__
Construct ==
    /\ pc = "new"
    /\ dbc' = [engine |-> EngineOf(database), settings |-> GetSettings(settings, database)]
    /\ pc' = "idle"
    /\ UNCHANGED <<settings, database, io, commands, ip, translated, spawned, printed, err>>
    /\ UNCHANGED <<cleanVars, backupVars, s3Vars, fnVars>>

\* self.settings.BACKUP_COMMANDS / RESTORE_COMMANDS of a settings object that
\* is None: AttributeError
StartRun(dir) ==
    /\ pc = "idle"
    /\ io' = dir
    /\ IF dbc.settings = None
       THEN /\ pc' = "fail"
            /\ err' = Exception("AttributeError", <<>>, 0)
            /\ UNCHANGED <<commands, ip>>
       ELSE /\ pc' = "run"
            /\ commands' = IF dir = "backup" THEN dbc.settings.BACKUP_COMMANDS
                           ELSE dbc.settings.RESTORE_COMMANDS
            /\ ip' = 1
            /\ UNCHANGED err
    /\ UNCHANGED <<settings, database, dbc, translated, spawned, printed>>
    /\ UNCHANGED <<cleanVars, backupVars, s3Vars, fnVars>>

\* DBCommands.run_backup_commands
RunBackupCommands == StartRun("backup")

\* DBCommands.run_restore_commands
RunRestoreCommands == StartRun("restore")

InLoop == pc = "run" /\ ip <= Len(commands)

\* run_commands: translate_command raises KeyError
TranslateFails ==
    /\ InLoop
    /\ TranslateRaises(database, commands[ip])
    /\ pc' = "fail"
    /\ err' = Exception("KeyError", <<>>, ip)
    /\ UNCHANGED <<settings, database, dbc, io, commands, ip, translated, spawned, printed>>
    /\ UNCHANGED <<cleanVars, backupVars, s3Vars, fnVars>>

\* run_commands: a READ_FILE or WRITE_FILE step; open() may raise IOError
FileStep ==
    /\ InLoop
    /\ ~ TranslateRaises(database, commands[ip])
    /\ LET c == TranslateCommand(database, commands[ip])
       IN  /\ c[1] \in {READ_FILE, WRITE_FILE}
           /\ translated' = c
           /\ printed' = Append(printed,
                  (IF c[1] = READ_FILE
                   THEN <<" "," ","R","e","a","d","i","n","g",":"," ">>
                   ELSE <<" "," ","W","r","i","t","i","n","g",":"," ">>) \o c[2])
           /\ \E ok \in BOOLEAN :
                IF ok THEN ip' = ip + 1 /\ UNCHANGED <<pc, err>>
                ELSE /\ pc' = "fail"
                     /\ err' = Exception("IOError", <<>>, ip)
                     /\ UNCHANGED ip
    /\ UNCHANGED <<settings, database, dbc, io, commands, spawned>>
    /\ UNCHANGED <<cleanVars, backupVars, s3Vars, fnVars>>

\* run_commands: a real process, run by run_command
RunCommandStep ==
    /\ InLoop
    /\ ~ TranslateRaises(database, commands[ip])
    /\ LET c == TranslateCommand(database, commands[ip])
           argv == StripMarkers(c)
       IN  /\ c[1] \notin {READ_FILE, WRITE_FILE}
           /\ translated' = c
           /\ printed' = Append(printed, RunningLine(database, argv))
           /\ \/ \* Popen raises: no such executable
                 /\ pc' = "fail"
                 /\ err' = Exception("OSError", <<>>, ip)
                 /\ UNCHANGED <<ip, spawned>>
              \/ \E status \in ExitStatuses :
                 /\ spawned' = Append(spawned,
                        [ step |-> ip, argv |-> argv, status |-> status,
                          stdin |-> IF c[Len(c)] = <<"<">> THEN "stdin" ELSE "None",
                          stdout |-> IF c[Len(c)] = <<">">> THEN "stdout" ELSE "devnull" ])
                 /\ IF Failed(status)
                    THEN /\ pc' = "fail"
                         /\ err' = Exception("CommandError", ErrorMessage(database, argv), ip)
                         /\ UNCHANGED ip
                    ELSE ip' = ip + 1 /\ UNCHANGED <<pc, err>>
    /\ UNCHANGED <<settings, database, dbc, io, commands>>
    /\ UNCHANGED <<cleanVars, backupVars, s3Vars, fnVars>>

\* run_commands: the list is exhausted
RunReturns ==
    /\ pc = "run"
    /\ ip > Len(commands)
    /\ pc' = "done"
    /\ UNCHANGED <<settings, database, dbc, io, commands, ip, translated, spawned, printed, err>>
    /\ UNCHANGED <<cleanVars, backupVars, s3Vars, fnVars>>

NextCommands ==
    \/ Construct
    \/ RunBackupCommands
    \/ RunRestoreCommands
    \/ TranslateFails
    \/ FileStep
    \/ RunCommandStep
    \/ RunReturns

SpecCommands == InitCommands /\ [][NextCommands]_vars

(***************************************************************************)
(* Claims about DBCommands, checked under SpecCommands                     *)
(***************************************************************************)

IsProcessStep(c) == c[1] \notin {READ_FILE, WRITE_FILE}

\* C1: run_commands spawns the argument vectors of its list in list order,
\* each at most once; a step that exits non-zero is the last one spawned, and
\* the call ends with a CommandError whose message carries that step's
\* argument vector; a call that returns has spawned every process step.
C1_RunCommandsFailFast ==
    /\ \A k \in 1..Len(spawned) :
        /\ spawned[k].step \in 1..Len(commands)
        /\ spawned[k].argv =
              StripMarkers(TranslateCommand(database, commands[spawned[k].step]))
        /\ \A l \in 1..Len(spawned) : k < l => spawned[k].step < spawned[l].step
        /\ spawned[k].status # 0 =>
              /\ k = Len(spawned)
              /\ pc = "fail"
              /\ err # None
              /\ err.type = "CommandError"
              /\ Contains(err.message, ReprList(spawned[k].argv))
    /\ pc = "done" =>
          {spawned[k].step : k \in 1..Len(spawned)}
              = {i \in 1..Len(commands) : IsProcessStep(commands[i])}

\* C1 witness: the default PostgreSQL restore whose dropdb exited non-zero:
\* createdb and psql were never spawned.
C1_Witness ==
    /\ pc = "fail"
    /\ io = "restore"
    /\ Len(commands) = 3
    /\ Len(spawned) = 1
    /\ spawned[1].status # 0
    /\ spawned[1].argv[1] = <<"d","r","o","p","d","b">>

\* C6: neither a "Running:" line nor the CommandError of a step whose command
\* line had the password substituted into it contains the literal password.
C6_NoPasswordSurfaced ==
    database.PASSWORD # <<>> =>
        /\ \A i \in 1..Len(printed) : ~ Contains(printed[i], database.PASSWORD)
        /\ (err # None /\ err.type = "CommandError"
                /\ \E j \in 1..Len(commands[err.step]) :
                       Contains(commands[err.step][j], T_password))
             => ~ Contains(err.message, database.PASSWORD)

SupportedEngines == {E_mysql, E_psycopg2, E_postgis, E_sqlite3}

\* C9: for an unsupported ENGINE the constructor never returns an object: the
\* construction itself ends in an error.
C9_UnsupportedEngineRejected ==
    EngineOf(database) \notin SupportedEngines =>
        /\ dbc = None
        /\ pc \in {"new", "fail"}

Count(list, x) == Cardinality({i \in 1..Len(list) : list[i] = x})

F_host == <<"-","-","h","o","s","t","=">>
F_port == <<"-","-","p","o","r","t","=">>
F_password == <<"-","-","p","a","s","s","w","o","r","d","=">>

\* the default MySQL backup template has been resolved by translate_command
MySQLDefaultBackupResolved ==
    /\ dbc # None
    /\ dbc.engine = E_mysql
    /\ Unset(settings, "DBBACKUP_MYSQL_BACKUP_COMMANDS")
    /\ io = "backup"
    /\ translated # <<>>

RECURSIVE Pad(_, _)
Pad(n, width) == IF width = 0 THEN <<>>
                 ELSE Pad(n \div 10, width - 1) \o <<Digits[(n % 10) + 1]>>

\* timestamp.strftime(DATE_FORMAT), DATE_FORMAT = '%Y-%m-%d-%H%M%S'
Strftime(dt) ==
    Pad(dt.year, 4) \o <<"-">> \o Pad(dt.month, 2) \o <<"-">> \o Pad(dt.day, 2)
        \o <<"-">> \o Pad(dt.hour, 2) \o Pad(dt.minute, 2) \o Pad(dt.second, 2)

\* backup_date.strftime("%d")
StrftimeDay(dt) == Pad(dt.day, 2)

\* unicode(timestamp) of a datetime without microseconds
DatetimeStr(dt) ==
    Pad(dt.year, 4) \o <<"-">> \o Pad(dt.month, 2) \o <<"-">> \o Pad(dt.day, 2)
        \o <<" ">> \o Pad(dt.hour, 2) \o <<":">> \o Pad(dt.minute, 2)
        \o <<":">> \o Pad(dt.second, 2)

IsDigit(c) == \E i \in 1..10 : Digits[i] = c
DigitVal(c) == (CHOOSE i \in 1..10 : Digits[i] = c) - 1

\* int(s) of a string of digits
RECURSIVE ParseInt(_)
ParseInt(s) == IF s = <<>> THEN 0
               ELSE 10 * ParseInt(SubSeq(s, 1, Len(s) - 1)) + DigitVal(s[Len(s)])

DaysIn(y, m) ==
    IF m \in {4, 6, 9, 11} THEN 30
    ELSE IF m # 2 THEN 31
    ELSE IF (y % 4 = 0 /\ y % 100 # 0) \/ y % 400 = 0 THEN 29 ELSE 28

\* the strings of the shape DATE_FORMAT writes: dddd-dd-dd-dddddd
HasDateShape(s) ==
    /\ Len(s) = 17
    /\ \A i \in 1..17 : IF i \in {5, 8, 11} THEN s[i] = "-" ELSE IsDigit(s[i])

\* datetime.strptime(s, DATE_FORMAT): the datetime, or a ValueError. A string
\* that is not of the written shape raises here (strptime also reads fields
\* with fewer digits; no name of the model has such a date).
StrptimeRaises(s) ==
    \/ ~ HasDateShape(s)
    \/ LET m == ParseInt(SubSeq(s, 6, 7))
           d == ParseInt(SubSeq(s, 9, 10))
       IN  \/ m \notin 1..12
           \/ d < 1
           \/ (m \in 1..12 /\ d > DaysIn(ParseInt(SubSeq(s, 1, 4)), m))
           \/ ParseInt(SubSeq(s, 12, 13)) > 23
           \/ ParseInt(SubSeq(s, 14, 15)) > 59
           \/ ParseInt(SubSeq(s, 16, 17)) > 61

Strptime(s) ==
    [ year |-> ParseInt(SubSeq(s, 1, 4)), month |-> ParseInt(SubSeq(s, 6, 7)),
      day |-> ParseInt(SubSeq(s, 9, 10)), hour |-> ParseInt(SubSeq(s, 12, 13)),
      minute |-> ParseInt(SubSeq(s, 14, 15)), second |-> ParseInt(SubSeq(s, 16, 17)) ]

\* datetime comparison
DtKey(dt) == <<dt.year, dt.month, dt.day, dt.hour, dt.minute, dt.second>>

\* a < b for two tuples of int, as Python orders sequences
TupleLess(a, b) ==
    \E i \in 1..(Len(b)) :
        /\ \A j \in 1..(i - 1) : j <= Len(a) /\ a[j] = b[j]
        /\ (i > Len(a) \/ a[i] < b[i])

DtLess(a, b) == TupleLess(DtKey(a), DtKey(b))

\* the characters of the model's names, in ASCII order
Ascii == << " ", "'", "(", ")", "*", ",", "-", ".", "/",
            "0", "1", "2", "3", "4", "5", "6", "7", "8", "9", ":", "<", "=", ">", "?",
            "A", "D", "E", "F", "I", "L", "N", "R", "T", "W", "[", "\\", "]", "_",
            "a", "b", "c", "d", "e", "f", "g", "h", "i", "j", "k", "l", "m", "n", "o",
            "p", "q", "r", "s", "t", "u", "v", "w", "x", "y", "z", "{", "}" >>

Ord(c) == CHOOSE i \in 1..Len(Ascii) : Ascii[i] = c

\* a < b for two str
StrLess(a, b) ==
    \E i \in 1..Len(b) :
        /\ \A j \in 1..(i - 1) : j <= Len(a) /\ a[j] = b[j]
        /\ (i > Len(a) \/ Ord(a[i]) < Ord(b[i]))

\* sorted(list, key): a stable sort; Less compares two elements by their key
RECURSIVE InsertSorted(_, _, _)
InsertSorted(Less(_, _), x, list) ==
    IF list = <<>> THEN <<x>>
    ELSE IF Less(x, Head(list)) THEN <<x>> \o list
    ELSE <<Head(list)>> \o InsertSorted(Less, x, Tail(list))

RECURSIVE SortedBy(_, _)
SortedBy(Less(_, _), list) ==
    IF list = <<>> THEN <<>>
    ELSE InsertSorted(Less, list[Len(list)], SortedBy(Less, SubSeq(list, 1, Len(list) - 1)))

(***************************************************************************)
(* Regular expressions: the patterns the commands build, a prefix and a    *)
(* suffix of literals and "." around one ".*?" or ".*"                     *)
(***************************************************************************)

\* a backslash of r that escapes the character after it: one that an even
\* number of backslashes precedes
Escapes(r, i) ==
    /\ r[i] = "\\"
    /\ i < Len(r)
    /\ LET before == {j \in 0..(i - 1) : j = 0 \/ r[j] # "\\"}
           j0 == CHOOSE j \in before : \A k \in before : k <= j
       IN  (i - 1 - j0) % 2 = 0

\* the atoms of a pattern without repetition: "\c" is the character c, "." is
\* any character, any other character is itself
Atoms(r) ==
    LET escaped(i) == i > 1 /\ Escapes(r, i - 1)
        kept == {i \in 1..Len(r) : ~ Escapes(r, i)}
        nth(k) == CHOOSE i \in kept : Cardinality({j \in kept : j < i}) = k - 1
    IN  [k \in 1..Cardinality(kept) |->
            [any |-> r[nth(k)] = "." /\ ~ escaped(nth(k)), c |-> r[nth(k)]]]

\* re.compile(r) of a pattern with one ".*" in it, lazy when followed by "?",
\* with or without the parentheses of a group
Compile(r) ==
    LET star == Find(r, <<".", "*">>)
        lazy == Len(r) >= star + 2 /\ r[star + 2] = "?"
        last == IF lazy THEN star + 2 ELSE star + 1
        group == star > 1 /\ r[star - 1] = "(" /\ Len(r) > last /\ r[last + 1] = ")"
    IN  [ pre |-> Atoms(SubSeq(r, 1, IF group THEN star - 2 ELSE star - 1)),
          post |-> Atoms(SubSeq(r, (IF group THEN last + 2 ELSE last + 1), Len(r))),
          lazy |-> lazy ]

MatchAt(atoms, s, i) ==
    /\ i + Len(atoms) - 1 <= Len(s)
    /\ \A k \in 1..Len(atoms) : atoms[k].any \/ atoms[k].c = s[i + k - 1]

\* the pattern matches s from index i on: its prefix at i, its suffix at
\* some j after the prefix
Ends(re, s, i) ==
    {j \in (i + Len(re.pre))..(Len(s) + 1) : MatchAt(re.post, s, j)}

Starts(re, s) ==
    {i \in 1..(Len(s) + 1) : MatchAt(re.pre, s, i) /\ Ends(re, s, i) # {}}

\* re.search(regex, s) is not None
ReSearch(re, s) ==
    \E i \in 1..(Len(s) + 1) :
        /\ MatchAt(re.pre, s, i)
        /\ \E j \in (i + Len(re.pre))..(Len(s) + 1) : MatchAt(re.post, s, j)

\* re.findall(regex, s)[0] of a pattern with one group: the group of the
\* leftmost match, the shortest one when lazy and the longest when greedy
FirstGroup(re, s) ==
    LET starts == Starts(re, s)
        start == CHOOSE i \in starts : \A k \in starts : i <= k
        ends == Ends(re, s, start)
        stop == IF re.lazy THEN CHOOSE j \in ends : \A k \in ends : j <= k
                ELSE CHOOSE j \in ends : \A k \in ends : j >= k
    IN  SubSeq(s, start + Len(re.pre), stop - 1)

(***************************************************************************)
(* dbcommands.py: DBCommands.filename and the filters built on it          *)
(***************************************************************************)

\* DBBACKUP_SERVER_NAME, DBBACKUP_FILENAME_TEMPLATE
SERVER_NAME(conf) == Get(conf, "DBBACKUP_SERVER_NAME", <<>>)
FILENAME_TEMPLATE(conf) ==
    Get(conf, "DBBACKUP_FILENAME_TEMPLATE",
        <<"{","d","a","t","a","b","a","s","e","n","a","m","e","}","-","{","s","e","r",
          "v","e","r","n","a","m","e","}","-","{","d","a","t","e","t","i","m","e","}",
          ".","{","e","x","t","e","n","s","i","o","n","}">>)

\* unicode(value) of a str or None
Unicode(v) == IF v = None THEN <<"N","o","n","e">> ELSE v.str

\* "a or b" of two str, None being falsy
Or(a, b) == IF a = None \/ a.str = <<>> THEN b ELSE a.str

\* DBCommands.filename for a string template: sname and wildcard are a
\* str or None, t is datetime.now(). The parameters are substituted in one
\* fixed order (the dictionary's; it matters only when a value holds one of
\* the placeholders).
Filename(conf, db, st, sname, wildcard, t) ==
    LET f1 == Replace(FILENAME_TEMPLATE(conf), T_databasename,
                      Replace(db.NAME, <<"/">>, <<"_">>))
        f2 == Replace(f1, <<"{","s","e","r","v","e","r","n","a","m","e","}">>,
                      Or(sname, SERVER_NAME(conf)))
        f3 == Replace(f2, <<"{","t","i","m","e","s","t","a","m","p","}">>, DatetimeStr(t))
        f4 == Replace(f3, <<"{","e","x","t","e","n","s","i","o","n","}">>, st.EXTENSION)
        f5 == Replace(f4, <<"{","w","i","l","d","c","a","r","d","}">>, Unicode(wildcard))
        f6 == Replace(f5, <<"{","d","a","t","e","t","i","m","e","}">>,
                      Or(wildcard, Strftime(t)))
    IN  Replace(f6, <<"-", "-">>, <<"-">>)

\* DBCommands.filename_match; the time of the call does not reach the result
\* of the default template, which has no {timestamp}
FilenameMatch(conf, db, st, sname, wildcard, t) ==
    Filename(conf, db, st, sname, wildcard, t)

\* DBCommands.filter_filepaths(filepaths), called without a servername
FilterFilepaths(conf, db, st, filepaths, t) ==
    LET regex == Compile(FilenameMatch(conf, db, st, None, PyS(<<".", "*", "?">>), t))
    IN  SelectSeq(filepaths, LAMBDA path : ReSearch(regex, path))

(***************************************************************************)
(* dbbackup.py and backup_media.py: cleanup_old_backups                    *)
(***************************************************************************)

\* CLEANUP_KEEP = getattr(settings, 'DBBACKUP_CLEANUP_KEEP', 10)
DefaultKeep == 10
CLEANUP_KEEP(conf) == Get(conf, "DBBACKUP_CLEANUP_KEEP", DefaultKeep)

\* list[0:-keep] for keep >= 0: -0 is 0, and the slice [0:0] is empty
SliceKeep(list, keep) ==
    IF keep = 0 THEN <<>> ELSE SubSeq(list, 1, Len(list) - keep)

\* the day's string compared with the int 1: never equal
IsFirstOfMonth_StrVsInt(dt) == StrftimeDay(dt) = <<"1">>

\* int(dateTime.strftime("%d")) != 1, negated
IsFirstOfMonth(dt) == ParseInt(StrftimeDay(dt)) = 1

\* backup_media: get_servername, then "if server_name: server_name = '-%s'"
MediaServerPart(conf, sname) ==
    LET server_name == Or(sname, SERVER_NAME(conf))
    IN  IF server_name # <<>> THEN <<"-">> \o server_name ELSE <<>>

\* backup_media.get_backup_basename
MediaBasename(conf, db, sname, dt) ==
    db.NAME \o MediaServerPart(conf, sname) \o <<"-">> \o Strftime(dt)
        \o <<".","m","e","d","i","a",".","t","a","r",".","g","z">>

\* backup_media.get_backup_file_list: media_re
MediaRe(conf, db, sname) ==
    Compile(db.NAME \o MediaServerPart(conf, sname)
        \o <<"-","(",".","*",")","\\",".","m","e","d","i","a","\\",".","t","a","r",
             "\\",".","g","z">>)

\* backup_media.get_backup_file_list: the names media_re finds
MediaMatching(conf, db, sname, names) ==
    SelectSeq(names, LAMBDA f : ReSearch(MediaRe(conf, db, sname), f))

\* backup_media.get_backup_file_list raises: strptime on a matching name
MediaListRaises(conf, db, sname, names) ==
    LET ms == MediaMatching(conf, db, sname, names)
    IN  \E i \in 1..Len(ms) : StrptimeRaises(FirstGroup(MediaRe(conf, db, sname), ms[i]))

MediaEntryLess(a, b) == DtLess(a.date, b.date)

\* backup_media.get_backup_file_list, when it does not raise
MediaFileList(conf, db, sname, names) ==
    LET ms == MediaMatching(conf, db, sname, names)
    IN  SortedBy(MediaEntryLess,
            [i \in 1..Len(ms) |->
                [date |-> Strptime(FirstGroup(MediaRe(conf, db, sname), ms[i])),
                 name |-> ms[i]]])

\* dbbackup.cleanup_old_backups: sorted(filepaths[0:-CLEANUP_KEEP]) of the
\* filtered listing
DbCandidates(conf, db, st, names, keep, t) ==
    SortedBy(StrLess, SliceKeep(FilterFilepaths(conf, db, st, names, t), keep))

\* dbbackup.cleanup_old_backups: the regex the loop reads the date with
DbDateRe(conf, db, st, sname, t) ==
    Compile(FilenameMatch(conf, db, st, sname, PyS(<<"(", ".", "*", "?", ")">>), t))

(***************************************************************************)
(* The inputs of a cleanup: the stored names                               *)
(***************************************************************************)

MaxFiles == 3
MaxKeep == 2

S_w == <<"w">>

\* the database whose backups are cleaned
CleanDatabase ==
    ("ENGINE" :> <<"d","j","a","n","g","o",".","d","b",".","b","a","c","k","e","n",
                   "d","s",".">> \o E_mysql)
    @@ ("NAME" :> S_shop) @@ ("USER" :> S_u) @@ ("PASSWORD" :> <<"s","3">>)
    @@ ("HOST" :> <<>>) @@ ("PORT" :> PyS(<<>>))

BackupDates == { Datetime(2021, 1, 1), Datetime(2021, 1, 15), Datetime(2021, 2, 15) }

ServerNames == { None, PyS(S_w) }

NoSettings == [k \in {} |-> k]

\* the name a command gives the backup it writes at time dt
BackupName(c, sname, dt) ==
    IF c = "dbbackup"
    THEN Filename(NoSettings, CleanDatabase, GetSettings(NoSettings, CleanDatabase),
                  sname, None, dt)
    ELSE MediaBasename(NoSettings, CleanDatabase, sname, dt)

\* a stored name that is no backup of this database
ForeignName == <<"b","l","o","g","-","2","0","2","1","-","0","1","-","1","5","-",
                 "0","0","0","0","0","0",".","m","y","s","q","l">>

Pool(c) ==
    { BackupName(c, sname, dt) : sname \in ServerNames, dt \in BackupDates }
        \cup {ForeignName}

\* the sequences of at most n distinct names of S
RECURSIVE Listings(_, _)
Listings(S, n) ==
    IF n = 0 THEN {<<>>}
    ELSE LET shorter == Listings(S, n - 1)
         IN  shorter \cup
             UNION { { Append(l, x) : x \in S \ {l[i] : i \in 1..Len(l)} } :
                     l \in {k \in shorter : Len(k) = n - 1} }

KeepSettings ==
    {NoSettings} \cup { "DBBACKUP_CLEANUP_KEEP" :> k : k \in 0..MaxKeep }

InitCleanup ==
    /\ settings \in KeepSettings
    /\ database = CleanDatabase
    /\ dbc = [engine |-> EngineOf(database), settings |-> GetSettings(settings, database)]
    /\ pc = "idle"
    /\ io = "none"
    /\ commands = <<>>
    /\ ip = 0
    /\ translated = <<>>
    /\ spawned = <<>>
    /\ printed = <<>>
    /\ err = None
    /\ cmd \in {"dbbackup", "backup_media"}
    /\ servername \in ServerNames
    /\ now = Datetime(2021, 3, 1)
    /\ listed \in Listings(Pool(cmd), MaxFiles)
    /\ todo = <<>>
    /\ deleted = <<>>
    /\ cpc = "start"
    /\ cerr = None
    /\ BackupIdle
    /\ S3Idle
    /\ FnIdle

\* dbbackup.cleanup_old_backups up to its loop
DbCleanupStart ==
    /\ cpc = "start"
    /\ cmd = "dbbackup"
    /\ LET filepaths == DbCandidates(settings, database, dbc.settings, listed,
                                     CLEANUP_KEEP(settings), now)
       IN  todo' = [i \in 1..Len(filepaths) |-> [name |-> filepaths[i]]]
    /\ cpc' = "loop"
    /\ UNCHANGED <<cmd, servername, now, listed, deleted, cerr>>
    /\ UNCHANGED <<envVars, cmdVars, backupVars, s3Vars, fnVars>>

\* storage.delete_file(name): the call is made, and may raise StorageError
DeleteFile(name) ==
    /\ deleted' = Append(deleted, name)
    /\ \E ok \in BOOLEAN :
          IF ok THEN todo' = Tail(todo) /\ UNCHANGED <<cpc, cerr>>
          ELSE /\ cpc' = "fail"
               /\ cerr' = Exception("StorageError", <<>>, 0)
               /\ UNCHANGED todo

\* dbbackup.cleanup_old_backups: one iteration of the loop
DbCleanupStep ==
    /\ cpc = "loop"
    /\ cmd = "dbbackup"
    /\ todo # <<>>
    /\ LET filepath == Head(todo).name
           regex == DbDateRe(settings, database, dbc.settings, servername, now)
       IN  IF ~ ReSearch(regex, filepath)
           THEN /\ cpc' = "fail"
                /\ cerr' = Exception("IndexError", <<>>, 0)
                /\ UNCHANGED <<todo, deleted>>
           ELSE IF StrptimeRaises(FirstGroup(regex, filepath))
           THEN /\ cpc' = "fail"
                /\ cerr' = Exception("ValueError", <<>>, 0)
                /\ UNCHANGED <<todo, deleted>>
           ELSE IF ~ IsFirstOfMonth(Strptime(FirstGroup(regex, filepath)))
           THEN DeleteFile(filepath)
           ELSE todo' = Tail(todo) /\ UNCHANGED <<deleted, cpc, cerr>>
    /\ UNCHANGED <<cmd, servername, now, listed>>
    /\ UNCHANGED <<envVars, cmdVars, backupVars, s3Vars, fnVars>>

\* backup_media.cleanup_old_backups up to its loop
MediaCleanupStart ==
    /\ cpc = "start"
    /\ cmd = "backup_media"
    /\ IF MediaListRaises(settings, database, servername, listed)
       THEN /\ cpc' = "fail"
            /\ cerr' = Exception("ValueError", <<>>, 0)
            /\ UNCHANGED todo
       ELSE /\ todo' = SliceKeep(MediaFileList(settings, database, servername, listed),
                                 CLEANUP_KEEP(settings))
            /\ cpc' = "loop"
            /\ UNCHANGED cerr
    /\ UNCHANGED <<cmd, servername, now, listed, deleted>>
    /\ UNCHANGED <<envVars, cmdVars, backupVars, s3Vars, fnVars>>

\* backup_media.cleanup_old_backups: one iteration of the loop
MediaCleanupStep ==
    /\ cpc = "loop"
    /\ cmd = "backup_media"
    /\ todo # <<>>
    /\ IF ~ IsFirstOfMonth(Head(todo).date)
       THEN DeleteFile(Head(todo).name)
       ELSE todo' = Tail(todo) /\ UNCHANGED <<deleted, cpc, cerr>>
    /\ UNCHANGED <<cmd, servername, now, listed>>
    /\ UNCHANGED <<envVars, cmdVars, backupVars, s3Vars, fnVars>>

\* cleanup_old_backups returns
CleanupReturns ==
    /\ cpc = "loop"
    /\ todo = <<>>
    /\ cpc' = "done"
    /\ UNCHANGED <<cmd, servername, now, listed, todo, deleted, cerr>>
    /\ UNCHANGED <<envVars, cmdVars, backupVars, s3Vars, fnVars>>

NextCleanup ==
    \/ DbCleanupStart
    \/ DbCleanupStep
    \/ MediaCleanupStart
    \/ MediaCleanupStep
    \/ CleanupReturns

SpecCleanup == InitCleanup /\ [][NextCleanup]_vars

(***************************************************************************)
(* Claims about cleanup_old_backups, checked under SpecCleanup             *)
(***************************************************************************)

Commands == {"dbbackup", "backup_media"}

\* the names this run's command and --servername give a backup
CurrentNames == { BackupName(cmd, servername, dt) : dt \in BackupDates }

\* the time a backup name of the pool was written at
Embedded(name) ==
    IF name = ForeignName THEN Datetime(2021, 1, 15)
    ELSE CHOOSE dt \in BackupDates :
            \E c \in Commands, sname \in ServerNames : name = BackupName(c, sname, dt)

\* the backup names written on the first day of a month
FirstOfMonthNames ==
    { BackupName(c, sname, dt) :
        c \in Commands, sname \in ServerNames, dt \in {d \in BackupDates : d.day = 1} }

\* the listed backups of this run's database and server
ListedCurrent == { listed[i] : i \in 1..Len(listed) } \cap CurrentNames

\* C3: with keep >= 1 and whatever the order of the listing, every deleted
\* entry has at least keep listed entries newer than it: none of the keep
\* most recent is deleted.
C3_KeepsMostRecent ==
    CLEANUP_KEEP(settings) >= 1 =>
        \A i \in 1..Len(deleted) :
            Cardinality({ n \in ListedCurrent : DtLess(Embedded(deleted[i]), Embedded(n)) })
                >= CLEANUP_KEEP(settings)

\* C4: no entry written on the first day of a month is ever deleted, whatever
\* the listing and the value of keep.
C4_NeverDeletesFirstOfMonth ==
    \A i \in 1..Len(deleted) : deleted[i] \notin FirstOfMonthNames

\* C4 witness: dbbackup with keep = 1 on a listing of three backups, the
\* oldest of 1 January: the loop visited it and deleted only the second.
C4_Witness ==
    /\ cpc = "done"
    /\ cmd = "dbbackup"
    /\ CLEANUP_KEEP(settings) = 1
    /\ listed = << BackupName("dbbackup", servername, Datetime(2021, 1, 1)),
                   BackupName("dbbackup", servername, Datetime(2021, 1, 15)),
                   BackupName("dbbackup", servername, Datetime(2021, 2, 15)) >>
    /\ deleted = << BackupName("dbbackup", servername, Datetime(2021, 1, 15)) >>

\* C5: a cleanup that returns, on a listing of n backups of this database and
\* server none of which is of a first of the month, has deleted exactly
\* max(0, n - keep) of them, for every keep >= 0.
C5_DeletesAllButKeep ==
    ( /\ cpc = "done"
      /\ \A i \in 1..Len(listed) :
            listed[i] \in CurrentNames /\ listed[i] \notin FirstOfMonthNames )
    => Len(deleted) = (IF Len(listed) > CLEANUP_KEEP(settings)
                       THEN Len(listed) - CLEANUP_KEEP(settings) ELSE 0)

(***************************************************************************)
(* utils.py: encrypt_file; dbbackup.py and backup_media.py: handle         *)
(***************************************************************************)

TEMP_DIR == "temp_dir"
TEMP_FILENAME == "temp_filename"

\* "if result is None": the result object is never None
Truthy_NotNone(r) == r # None

\* "not result" is false: python-gnupg's result object is truthy when ok
Truthy(r) == r.ok

\* encrypt_file: the message of the exception a falsy result raises
EncryptionFailed(r) ==
    <<"E","n","c","r","y","p","t","i","o","n"," ","f","a","i","l","e","d",";"," ",
      "s","t","a","t","u","s",":"," ">> \o Unicode(r.status)

\* the files a call leaves in its temporary directory
Made(file) == {TEMP_DIR} \cup (IF file THEN {TEMP_FILENAME} ELSE {})

\* the inner finally clause left out
RemoveIfExists_Skipped(d) == d

\* the inner finally clause: if os.path.exists(f): os.remove(f)
RemoveIfExists(d) == IF TEMP_FILENAME \in d THEN d \ {TEMP_FILENAME} ELSE d

\* the outer finally clause: os.rmdir(temp_dir), which removes an empty
\* directory only
Rmdir(d) == IF TEMP_FILENAME \in d THEN d ELSE d \ {TEMP_DIR}

\* both finally clauses, the inner one first
Finally(d) == Rmdir(RemoveIfExists(d))

\* what g.encrypt_file can return: success, a refusal with its status, a
\* result object that was never filled in
GpgResults ==
    { [ok |-> TRUE, status |-> PyS(<<"e","n","c","r","y","p","t","i","o","n"," ","o","k">>)],
      [ok |-> FALSE, status |-> PyS(<<"i","n","v","a","l","i","d"," ","r","e","c","i","p",
                                      "i","e","n","t">>)],
      [ok |-> FALSE, status |-> None] }

S_blog == <<"b","l","o","g">>

\* settings.DATABASES
DATABASES ==
    ("default" :> CleanDatabase)
    @@ ("other" :> [CleanDatabase EXCEPT !["NAME"] = S_blog])

\* DATABASE_KEYS: DBBACKUP_DATABASES, or DATABASES.keys() in the dict's order
KeyOrders == { <<"default">>, <<"default", "other">>, <<"other", "default">> }

MaxStored == 2

\* the backups in the storage before the run
StoredPool(c, sname) ==
    { BackupName(c, sname, Datetime(2021, 1, 1)),
      BackupName(c, sname, Datetime(2021, 1, 15)),
      ForeignName }

OptionChoices(c) ==
    IF c = "dbbackup"
    THEN [clean : BOOLEAN, compress : BOOLEAN, encrypt : BOOLEAN,
          database : {None, [str |-> "default"]}]
    ELSE [clean : BOOLEAN, compress : {FALSE}, encrypt : BOOLEAN, database : {None}]

InitBackup ==
    /\ settings \in {NoSettings, "DBBACKUP_CLEANUP_KEEP" :> 1}
    /\ database = DATABASES["default"]
    /\ dbc = None
    /\ pc = "idle"
    /\ io = "none"
    /\ commands = <<>>
    /\ ip = 0
    /\ translated = <<>>
    /\ spawned = <<>>
    /\ printed = <<>>
    /\ err = None
    /\ cmd \in {"dbbackup", "backup_media"}
    /\ servername \in ServerNames
    /\ now = Datetime(2021, 3, 2)
    /\ listed = <<>>
    /\ todo = <<>>
    /\ deleted = <<>>
    /\ cpc = "idle"
    /\ cerr = None
    /\ options \in OptionChoices(cmd)
    /\ bpc = "start"
    /\ database_keys \in (IF cmd = "dbbackup" THEN KeyOrders ELSE {<<>>})
    /\ output_file = None
    /\ disk = {}
    /\ result = None
    /\ stored \in Listings(StoredPool(cmd, servername), MaxStored)
    /\ written = <<>>
    /\ berr = None
    /\ S3Idle
    /\ FnIdle

\* handle ends with an exception: a StorageError is turned into a CommandError
Raise(e) ==
    /\ bpc' = "fail"
    /\ berr' = IF e.type = "StorageError" THEN Exception("CommandError", e.message, 0)
               ELSE e

\* handle up to its first call: the options, BaseStorage.storage_factory()
Handle ==
    /\ bpc = "start"
    /\ \E ok \in BOOLEAN :
         IF ok
         THEN /\ bpc' = IF cmd = "dbbackup" THEN "loop" ELSE "tar"
              /\ database_keys' = IF options.database # None
                                  THEN <<options.database.str>> ELSE database_keys
              /\ UNCHANGED berr
         ELSE Raise(Exception("StorageError", <<>>, 0)) /\ UNCHANGED database_keys
    /\ UNCHANGED <<options, output_file, disk, result, stored, written>>
    /\ UNCHANGED <<envVars, cmdVars, cleanVars, s3Vars, fnVars>>

\* dbbackup.handle: the loop takes the next database and builds its DBCommands
NextDatabase ==
    /\ bpc = "loop"
    /\ database_keys # <<>>
    /\ database' = DATABASES[Head(database_keys)]
    /\ dbc' = [engine |-> EngineOf(database'), settings |-> GetSettings(settings, database')]
    /\ database_keys' = Tail(database_keys)
    /\ bpc' = "save"
    /\ UNCHANGED <<options, output_file, disk, result, stored, written, berr>>
    /\ UNCHANGED <<settings, cmdVars, cleanVars, s3Vars, fnVars>>

\* dbbackup.handle: the loop is over
HandleReturns ==
    /\ bpc = "loop"
    /\ database_keys = <<>>
    /\ bpc' = "done"
    /\ UNCHANGED <<options, database_keys, output_file, disk, result, stored, written, berr>>
    /\ UNCHANGED <<envVars, cmdVars, cleanVars, s3Vars, fnVars>>

\* where save_new_backup and backup_mediafiles go once the file is made
AfterFile == IF options.encrypt THEN "encrypt" ELSE "write"

\* dbbackup.save_new_backup: the spooled file, its name, run_backup_commands
SaveNewBackup ==
    /\ bpc = "save"
    /\ output_file' =
         [name |-> Filename(settings, database, dbc.settings, servername, None, now),
          encrypted |-> FALSE]
    /\ \E ok \in BOOLEAN :
         IF ok
         THEN bpc' = (IF options.compress THEN "compress" ELSE AfterFile) /\ UNCHANGED berr
         ELSE Raise(Exception("CommandError", <<>>, 0))
    /\ UNCHANGED <<options, database_keys, disk, result, stored, written>>
    /\ UNCHANGED <<envVars, cmdVars, cleanVars, s3Vars, fnVars>>

\* dbbackup.compress_file, and the lines of save_new_backup that call it
CompressFile ==
    /\ bpc = "compress"
    /\ output_file' = [name |-> output_file.name \o <<".","g","z">>, encrypted |-> FALSE]
    /\ bpc' = AfterFile
    /\ UNCHANGED <<options, database_keys, disk, result, stored, written, berr>>
    /\ UNCHANGED <<envVars, cmdVars, cleanVars, s3Vars, fnVars>>

\* the ways create_backup_file ends: tarfile.open raises, tar_file.add raises,
\* the copy into the spooled file raises, it returns
TarOutcomes == {"open", "add", "copy", "return"}

\* backup_media.create_backup_file: the tar is made in a temporary directory
\* and copied to a spooled file; tarfile.open creates the file, and whatever
\* raises the finally clauses run
CreateBackupFile ==
    /\ bpc = "tar"
    /\ \E outcome \in TarOutcomes :
         /\ IF outcome = "return"
            THEN /\ output_file' =
                      [name |-> MediaBasename(settings, database, servername, now),
                       encrypted |-> FALSE]
                 /\ bpc' = AfterFile
                 /\ UNCHANGED berr
            ELSE Raise(Exception("IOError", <<>>, 0)) /\ UNCHANGED output_file
         /\ disk' = Finally(disk \cup Made(outcome # "open"))
    /\ UNCHANGED <<options, database_keys, result, stored, written>>
    /\ UNCHANGED <<envVars, cmdVars, cleanVars, s3Vars, fnVars>>

\* utils.encrypt_file up to "input_file.close()": mkdtemp, the gpg call. A gpg
\* that succeeds has written its output; one that fails or raises may have
\* written some. When gpg raises the finally clauses remove what was made.
EncryptFileCall ==
    /\ bpc = "encrypt"
    /\ \/ \E r \in GpgResults, wrote \in BOOLEAN :
            /\ r.ok => wrote
            /\ result' = r
            /\ disk' = disk \cup Made(wrote)
            /\ bpc' = "gpg"
            /\ UNCHANGED berr
       \/ /\ Raise(Exception("OSError", <<>>, 0))
          /\ \E wrote \in BOOLEAN : disk' = Finally(disk \cup Made(wrote))
          /\ UNCHANGED result
    /\ UNCHANGED <<options, database_keys, output_file, stored, written>>
    /\ UNCHANGED <<envVars, cmdVars, cleanVars, s3Vars, fnVars>>

\* utils.encrypt_file from "if not result" on: the check of the result, the
\* copy of gpg's output into a spooled file named <name>.gpg, the finally
\* clauses. The copy holds ciphertext only if gpg succeeded.
EncryptFileResult ==
    /\ bpc = "gpg"
    /\ IF ~ Truthy(result)
       THEN Raise(Exception("Exception", EncryptionFailed(result), 0))
            /\ UNCHANGED output_file
       ELSE IF TEMP_FILENAME \notin disk
       THEN Raise(Exception("IOError", <<>>, 0)) /\ UNCHANGED output_file
       ELSE \E ok \in BOOLEAN :
              IF ok
              THEN /\ output_file' = [name |-> output_file.name \o <<".","g","p","g">>,
                                      encrypted |-> result.ok]
                   /\ bpc' = "write"
                   /\ UNCHANGED berr
              ELSE Raise(Exception("IOError", <<>>, 0)) /\ UNCHANGED output_file
    /\ disk' = Finally(disk)
    /\ result' = None
    /\ UNCHANGED <<options, database_keys, stored, written>>
    /\ UNCHANGED <<envVars, cmdVars, cleanVars, s3Vars, fnVars>>

\* the end of save_new_backup and of backup_mediafiles:
\* self.storage.write_file(output_file)
WriteFile ==
    /\ bpc = "write"
    /\ \E ok \in BOOLEAN :
         IF ok
         THEN /\ written' = Append(written, output_file)
              /\ stored' = IF \E i \in 1..Len(stored) : stored[i] = output_file.name
                           THEN stored ELSE Append(stored, output_file.name)
              /\ bpc' = "clean"
              /\ UNCHANGED berr
         ELSE Raise(Exception("StorageError", <<>>, 0)) /\ UNCHANGED <<written, stored>>
    /\ UNCHANGED <<options, database_keys, output_file, disk, result>>
    /\ UNCHANGED <<envVars, cmdVars, cleanVars, s3Vars, fnVars>>

\* where handle goes after the cleanup
AfterCleanup == IF cmd = "dbbackup" THEN "loop" ELSE "done"

\* the cleanup done whether or not it was asked for
CleanRequested_Always(opts) == TRUE

\* dbbackup: "if self.clean:"; backup_media: "if options.get('clean'):"
CleanRequested(opts) == opts.clean

\* cleanup_old_backups is entered, when the clean option was given, with the
\* storage's listing
CleanupOldBackups ==
    /\ bpc = "clean"
    /\ IF CleanRequested(options)
       THEN /\ listed' = SelectSeq(stored,
                            LAMBDA n : ~ \E i \in 1..Len(deleted) : deleted[i] = n)
            /\ todo' = <<>>
            /\ cpc' = "start"
            /\ cerr' = None
            /\ bpc' = "cleaning"
       ELSE /\ bpc' = AfterCleanup
            /\ UNCHANGED <<listed, todo, cpc, cerr>>
    /\ UNCHANGED <<cmd, servername, now, deleted>>
    /\ UNCHANGED <<options, database_keys, output_file, disk, result, stored, written, berr>>
    /\ UNCHANGED <<envVars, cmdVars, s3Vars, fnVars>>

\* cleanup_old_backups has returned or raised
CleanupEnds ==
    /\ bpc = "cleaning"
    /\ cpc \in {"done", "fail"}
    /\ IF cpc = "done" THEN bpc' = AfterCleanup /\ UNCHANGED berr ELSE Raise(cerr)
    /\ cpc' = "idle"
    /\ UNCHANGED <<cmd, servername, now, listed, todo, deleted, cerr>>
    /\ UNCHANGED <<options, database_keys, output_file, disk, result, stored, written>>
    /\ UNCHANGED <<envVars, cmdVars, s3Vars, fnVars>>

NextBackup ==
    \/ Handle
    \/ NextDatabase
    \/ HandleReturns
    \/ SaveNewBackup
    \/ CompressFile
    \/ CreateBackupFile
    \/ EncryptFileCall
    \/ EncryptFileResult
    \/ WriteFile
    \/ CleanupOldBackups
    \/ CleanupEnds
    \/ DbCleanupStart
    \/ DbCleanupStep
    \/ MediaCleanupStart
    \/ MediaCleanupStep
    \/ CleanupReturns

SpecBackup == InitBackup /\ [][NextBackup]_vars

(***************************************************************************)
(* Claims about encryption, checked under SpecBackup                       *)
(***************************************************************************)

\* C2: when encryption is requested, every file storage.write_file was called
\* with holds ciphertext, and the file about to be written does too: an
\* encrypt_file that did not succeed is followed by no write of that backup.
C2_NoUnencryptedWrite ==
    options.encrypt =>
        /\ \A i \in 1..Len(written) : written[i].encrypted
        /\ bpc \in {"write", "clean", "cleaning"} => output_file.encrypted

\* C2 witness: encryption was requested, gpg returned a falsy result, and the
\* run ended with "Encryption failed" before anything was written.
C2_Witness ==
    /\ options.encrypt
    /\ bpc = "fail"
    /\ berr.type = "Exception"
    /\ Contains(berr.message, <<"E","n","c","r","y","p","t","i","o","n"," ","f","a","i",
                                "l","e","d">>)
    /\ written = <<>>

(***************************************************************************)
(* s3_storage.py: Storage                                                  *)
(***************************************************************************)

N_S3_BUCKET == <<"D","B","B","A","C","K","U","P","_","S","3","_","B","U","C","K","E","T">>
N_S3_ACCESS_KEY ==
    <<"D","B","B","A","C","K","U","P","_","S","3","_","A","C","C","E","S","S","_","K","E","Y">>
N_S3_SECRET_KEY ==
    <<"D","B","B","A","C","K","U","P","_","S","3","_","S","E","C","R","E","T","_","K","E","Y">>

\* the settings Storage requires, by the class attribute that holds them
SettingName ==
    [S3_BUCKET |-> N_S3_BUCKET, S3_ACCESS_KEY |-> N_S3_ACCESS_KEY,
     S3_SECRET_KEY |-> N_S3_SECRET_KEY]

\* "is None": an empty string is taken for a value
Falsy_NoneOnly(v) == v = None

\* "not v" of a str or None
Falsy(v) == v = None \/ v.str = <<>>

\* the message of the StorageError raised for a setting
Requires(name) ==
    <<"F","i","l","e","s","y","s","t","e","m"," ","s","t","o","r","a","g","e"," ",
      "r","e","q","u","i","r","e","s"," ">> \o name
    \o <<" ","t","o"," ","b","e"," ","d","e","f","i","n","e","d"," ","i","n"," ",
         "s","e","t","t","i","n","g","s",".">>

\* Storage._check_filesystem_errors: the message of the StorageError it
\* raises, or None when it returns
CheckFilesystemErrors(conf) ==
    IF Falsy(conf.S3_BUCKET) THEN PyS(Requires(N_S3_BUCKET))
    ELSE IF Falsy(conf.S3_ACCESS_KEY) THEN PyS(Requires(N_S3_ACCESS_KEY))
    ELSE IF Falsy(conf.S3_SECRET_KEY) THEN PyS(Requires(N_S3_SECRET_KEY))
    ELSE None

\* filehandle.read(5 * 1024 * 1024)
ChunkSize == 5 * 1024 * 1024

Min(a, b) == IF a < b THEN a ELSE b

MaxChunks == 2

\* the sizes of the files written: around each multiple of the chunk size
StreamSizes ==
    { k * ChunkSize + r : k \in 0..MaxChunks, r \in {0, 1} }
        \cup { k * ChunkSize - 1 : k \in 1..MaxChunks }

\* a setting: not set, empty, set
SettingValues == { None, PyS(<<>>), PyS(<<"x">>) }

InitS3 ==
    /\ settings = NoSettings
    /\ database = CleanDatabase
    /\ dbc = None
    /\ pc = "idle"
    /\ io = "none"
    /\ commands = <<>>
    /\ ip = 0
    /\ translated = <<>>
    /\ spawned = <<>>
    /\ printed = <<>>
    /\ err = None
    /\ CleanIdle
    /\ BackupIdle
    /\ s3conf \in [S3_BUCKET : SettingValues, S3_ACCESS_KEY : SettingValues,
                   S3_SECRET_KEY : SettingValues]
    /\ s3pc = "new"
    /\ connections = 0
    /\ unread \in StreamSizes
    /\ buffer = 0
    /\ part_index = 0
    /\ mp = None
    /\ fault = None
    /\ s3err = None
    /\ FnIdle

\* Storage.__init__: the check of the settings, then the connection
S3Construct ==
    /\ s3pc = "new"
    /\ LET missing == CheckFilesystemErrors(s3conf)
       IN  IF missing # None
           THEN /\ s3err' = Exception("StorageError", missing.str, 0)
                /\ s3pc' = "fail"
                /\ UNCHANGED connections
           ELSE /\ connections' = connections + 1
                /\ \E ok \in BOOLEAN :
                     IF ok THEN s3pc' = "ready" /\ UNCHANGED s3err
                     ELSE /\ s3pc' = "fail"
                          /\ s3err' = Exception("S3ResponseError", <<"g","e","t">>, 0)
    /\ UNCHANGED <<s3conf, unread, buffer, part_index, mp, fault>>
    /\ UNCHANGED <<envVars, cmdVars, cleanVars, backupVars, fnVars>>

\* write_file up to the try block: seek(0), initiate_multipart_upload
S3WriteFile ==
    /\ s3pc = "ready"
    /\ \E ok \in BOOLEAN :
         IF ok
         THEN /\ mp' = [parts |-> <<>>, completes |-> 0, completed |-> FALSE, cancels |-> 0]
              /\ part_index' = 1
              /\ s3pc' = "read"
              /\ UNCHANGED s3err
         ELSE /\ s3pc' = "fail"
              /\ s3err' = Exception("S3ResponseError", <<"i","n","i","t">>, 0)
              /\ UNCHANGED <<mp, part_index>>
    /\ UNCHANGED <<s3conf, connections, unread, buffer, fault>>
    /\ UNCHANGED <<envVars, cmdVars, cleanVars, backupVars, fnVars>>

\* write_file: buffer = filehandle.read(5 * 1024 * 1024), and the test of it
S3Read ==
    /\ s3pc = "read"
    /\ \E ok \in BOOLEAN :
         IF ok
         THEN /\ buffer' = Min(unread, ChunkSize)
              /\ unread' = unread - buffer'
              /\ s3pc' = IF buffer' = 0 THEN "complete" ELSE "upload"
              /\ UNCHANGED fault
         ELSE /\ fault' = Exception("IOError", <<"r","e","a","d">>, part_index)
              /\ s3pc' = "except"
              /\ UNCHANGED <<buffer, unread>>
    /\ UNCHANGED <<s3conf, connections, part_index, mp, s3err>>
    /\ UNCHANGED <<envVars, cmdVars, cleanVars, backupVars, fnVars>>

\* write_file: mp.upload_part_from_file(string_file, part_index)
S3UploadPart ==
    /\ s3pc = "upload"
    /\ \E ok \in BOOLEAN :
         IF ok
         THEN /\ mp' = [mp EXCEPT !.parts = Append(@, [index |-> part_index, size |-> buffer])]
              /\ part_index' = part_index + 1
              /\ s3pc' = "read"
              /\ UNCHANGED fault
         ELSE /\ fault' = Exception("S3ResponseError", <<"p","a","r","t">>, part_index)
              /\ s3pc' = "except"
              /\ UNCHANGED <<mp, part_index>>
    /\ UNCHANGED <<s3conf, connections, unread, buffer, s3err>>
    /\ UNCHANGED <<envVars, cmdVars, cleanVars, backupVars, fnVars>>

\* write_file: mp.complete_upload()
S3CompleteUpload ==
    /\ s3pc = "complete"
    /\ \E ok \in BOOLEAN :
         IF ok
         THEN /\ mp' = [mp EXCEPT !.completes = @ + 1, !.completed = TRUE]
              /\ s3pc' = "done"
              /\ UNCHANGED fault
         ELSE /\ mp' = [mp EXCEPT !.completes = @ + 1]
              /\ fault' = Exception("S3ResponseError", <<"c","o","m","p","l","e","t","e">>,
                                    part_index)
              /\ s3pc' = "except"
    /\ UNCHANGED <<s3conf, connections, unread, buffer, part_index, s3err>>
    /\ UNCHANGED <<envVars, cmdVars, cleanVars, backupVars, fnVars>>

\* write_file: "except: mp.cancel_upload(); raise". cancel_upload is a request
\* to S3 and may raise itself: its exception then replaces the one handled.
S3CancelUpload ==
    /\ s3pc = "except"
    /\ mp' = [mp EXCEPT !.cancels = @ + 1]
    /\ \E ok \in BOOLEAN :
         s3err' = IF ok THEN fault
                  ELSE Exception("S3ResponseError", <<"c","a","n","c","e","l">>, part_index)
    /\ s3pc' = "fail"
    /\ UNCHANGED <<s3conf, connections, unread, buffer, part_index, fault>>
    /\ UNCHANGED <<envVars, cmdVars, cleanVars, backupVars, fnVars>>

NextS3 ==
    \/ S3Construct
    \/ S3WriteFile
    \/ S3Read
    \/ S3UploadPart
    \/ S3CompleteUpload
    \/ S3CancelUpload

SpecS3 == InitS3 /\ [][NextS3]_vars

(***************************************************************************)
(* Claims about the S3 backend, checked under SpecS3                       *)
(***************************************************************************)

\* the required settings that are not set or are empty
Missing == { k \in DOMAIN SettingName : s3conf[k] = None \/ s3conf[k].str = <<>> }

\* the first missing setting, in the order bucket, access key, secret key
FirstMissing ==
    IF "S3_BUCKET" \in Missing THEN "S3_BUCKET"
    ELSE IF "S3_ACCESS_KEY" \in Missing THEN "S3_ACCESS_KEY"
    ELSE "S3_SECRET_KEY"

ConstructionFailedUnconnected ==
    /\ s3pc = "fail"
    /\ s3err.type = "StorageError"
    /\ connections = 0

\* C7: a Storage constructed with some required setting missing fails with a
\* StorageError before any connection is opened, and the message names every
\* missing setting.
C7_NamesEveryMissing ==
    (s3pc # "new" /\ Missing # {}) =>
        /\ ConstructionFailedUnconnected
        /\ \A k \in Missing : Contains(s3err.message, SettingName[k])

\* C7, amended: a Storage constructed with some required setting unset or
\* empty fails with a StorageError before any connection is opened, and the
\* message names the first missing setting, in the order bucket, access key,
\* secret key, and no other.
C7_NamesFirstMissing ==
    (s3pc # "new" /\ Missing # {}) =>
        /\ ConstructionFailedUnconnected
        /\ \A k \in DOMAIN SettingName :
              Contains(s3err.message, SettingName[k]) <=> k = FirstMissing

\* C7 witness: the bucket is set, both keys are missing, and the construction
\* has failed naming the access key.
C7_Witness ==
    /\ s3pc = "fail"
    /\ Missing = {"S3_ACCESS_KEY", "S3_SECRET_KEY"}
    /\ s3err.message = Requires(N_S3_ACCESS_KEY)

\* the parts uploaded are numbered 1, 2, 3, ... and every part but the last
\* is a full chunk
PartsInOrder ==
    \A i \in 1..Len(mp.parts) :
        /\ mp.parts[i].index = i
        /\ mp.parts[i].size \in 1..ChunkSize
        /\ i < Len(mp.parts) => mp.parts[i].size = ChunkSize

\* C8: once the multipart session is initiated, a failure in the try block is
\* followed by one cancel_upload, by no successful complete_upload, and the
\* error the caller gets is that failure; complete_upload is called only with
\* the whole stream read and uploaded in 5 MiB parts numbered from 1.
C8_CancelThenOriginalError ==
    mp # None =>
        /\ PartsInOrder
        /\ mp.completes > 0 => unread = 0 /\ buffer = 0
        /\ (fault # None /\ s3pc = "fail") =>
              /\ mp.cancels = 1
              /\ ~ mp.completed
              /\ s3err = fault

(***************************************************************************)
(* Claims about translate_command, checked under SpecCommands              *)
(***************************************************************************)

Tokens == {T_adminuser, T_username, T_password, T_databasename, T_host, T_port}

\* the list run_commands was called with is the one the settings object holds
CommandsOfSettings ==
    commands = (IF io = "backup" THEN dbc.settings.BACKUP_COMMANDS
                ELSE dbc.settings.RESTORE_COMMANDS)

\* C11: translate_command is total and pure: for every database
\* configuration, HOST, PORT and ADMINUSER being optional, and every vector
\* of the list being run, it returns without raising, leaves the list as the
\* settings hold it, leaves no token in the result and leaves an argument
\* that holds no token unchanged.
C11_TranslateTotalAndPure ==
    (pc \in {"run", "fail", "done"} /\ dbc.settings # None) =>
        /\ CommandsOfSettings
        /\ \A i \in 1..Len(commands) :
              /\ ~ TranslateRaises(database, commands[i])
              /\ LET c == TranslateCommand(database, commands[i])
                 IN  /\ Len(c) = Len(commands[i])
                     /\ \A j \in 1..Len(c) :
                           /\ \A t \in Tokens : ~ Contains(c[j], t)
                           /\ (\A t \in Tokens : ~ Contains(commands[i][j], t))
                                 => c[j] = commands[i][j]

(***************************************************************************)
(* DBCommands.filename and DBCommands.filter_filepaths as calls            *)
(***************************************************************************)

\* a DBBACKUP_FILENAME_TEMPLATE with doubled hyphens:
\* '{databasename}--{servername}--{datetime}.{extension}'
DoubledTemplate ==
    T_databasename \o <<"-","-">>
    \o <<"{","s","e","r","v","e","r","n","a","m","e","}">> \o <<"-","-">>
    \o <<"{","d","a","t","e","t","i","m","e","}">> \o <<".">>
    \o <<"{","e","x","t","e","n","s","i","o","n","}">>

FilenameSettings ==
    { t @@ n :
        t \in Optional("DBBACKUP_FILENAME_TEMPLATE", {DoubledTemplate}),
        n \in Optional("DBBACKUP_SERVER_NAME", {<<"s","r","v">>}) }

\* database names: plain, ending in a hyphen, a path
FilenameDbNames == { S_shop, S_shop \o <<"-">>, <<"a","/","b">> }

\* the servername argument: None, empty, a name, a hyphen
FilenameServerNames == { None, PyS(<<>>), PyS(S_w), PyS(<<"-">>) }

MaxListed == 2

\* stored names: backups of shop and of myshop, with and without the server
\* name w, and a backup of blog
FilterPool ==
    { Filename(NoSettings, [CleanDatabase EXCEPT !["NAME"] = n],
               GetSettings(NoSettings, CleanDatabase), sname, None, Datetime(2021, 1, 15)) :
        n \in {S_shop, <<"m","y">> \o S_shop}, sname \in ServerNames }
    \cup {ForeignName}

InitFilename ==
    /\ settings \in FilenameSettings
    /\ database \in { [CleanDatabase EXCEPT !["NAME"] = n] : n \in FilenameDbNames }
    /\ dbc = [engine |-> EngineOf(database), settings |-> GetSettings(settings, database)]
    /\ pc = "idle"
    /\ io = "none"
    /\ commands = <<>>
    /\ ip = 0
    /\ translated = <<>>
    /\ spawned = <<>>
    /\ printed = <<>>
    /\ err = None
    /\ cmd = "none"
    /\ servername \in FilenameServerNames
    /\ now = Datetime(2021, 1, 15)
    /\ listed = <<>>
    /\ todo = <<>>
    /\ deleted = <<>>
    /\ cpc = "idle"
    /\ cerr = None
    /\ BackupIdle
    /\ S3Idle
    /\ fpc = "new"
    /\ fout = None

\* DBCommands.filename(servername, wildcard)
CallFilename ==
    /\ fpc = "new"
    /\ \E wildcard \in {None, PyS(<<"*">>)} :
         fout' = [wildcard |-> wildcard,
                  filename |-> Filename(settings, database, dbc.settings, servername,
                                        wildcard, now)]
    /\ fpc' = "named"
    /\ UNCHANGED <<envVars, cmdVars, cleanVars, backupVars, s3Vars>>

\* DBCommands.filter_filepaths(filepaths)
CallFilterFilepaths ==
    /\ fpc = "new"
    /\ \E filepaths \in Listings(FilterPool, MaxListed) :
         fout' = [filepaths |-> filepaths,
                  result |-> FilterFilepaths(settings, database, dbc.settings,
                                             filepaths, now)]
    /\ fpc' = "filtered"
    /\ UNCHANGED <<envVars, cmdVars, cleanVars, backupVars, s3Vars>>

NextFilename ==
    \/ CallFilename
    \/ CallFilterFilepaths

SpecFilename == InitFilename /\ [][NextFilename]_vars

(***************************************************************************)
(* Claims about filename and filter_filepaths, checked under SpecFilename  *)
(***************************************************************************)

\* C12: whatever the database name, the server name and the string template,
\* the name filename returns holds no two consecutive hyphens.
C12_NoDoubleHyphen ==
    fpc = "named" => ~ Contains(fout.filename, <<"-", "-">>)

\* the names the template gives the backups of this database under this
\* server name
OwnNames ==
    { Filename(settings, database, dbc.settings, servername, None, Datetime(2021, 1, 15)) }

\* C13: filter_filepaths returns only names the filename template produces
\* for this database name and this server name: none of another database,
\* none of this database under another server name.
C13_OnlyOwnBackups ==
    fpc = "filtered" =>
        \A i \in 1..Len(fout.result) : fout.result[i] \in OwnNames

(***************************************************************************)
(* Claims about temporary files, checked under SpecBackup                  *)
(***************************************************************************)

\* C14: whenever control is outside encrypt_file and create_backup_file,
\* whether they returned or raised (tar creation, gpg call, falsy gpg result,
\* copy into the spooled file), neither the temporary file nor the temporary
\* directory they made exists; inside encrypt_file only those two exist.
C14_NoTemporaryLeft ==
    /\ bpc # "gpg" => disk = {}
    /\ bpc = "gpg" => TEMP_DIR \in disk /\ disk \subseteq {TEMP_DIR, TEMP_FILENAME}

\* C14 witness: a media backup whose tar was made, copied and removed, and
\* whose encryption then raised on a falsy gpg result: nothing is left.
C14_Witness ==
    /\ cmd = "backup_media"
    /\ bpc = "fail"
    /\ berr.type = "Exception"
    /\ output_file # None
    /\ disk = {}

(***************************************************************************)
(* Claims about the order of write and delete, checked under SpecBackup    *)
(***************************************************************************)

\* the database a stored name is a backup of: what precedes its first hyphen
DbOf(name) == SubSeq(name, 1, Find(name, <<"-">>) - 1)

\* the databases storage.write_file has taken a new backup of in this run
WrittenDbs == { DbOf(written[j].name) : j \in 1..Len(written) }

====
